---- MODULE Spec2Model ----
(***************************************************************************)
(* The /analyze request handler of app.py and the functions it calls:      *)
(* analyze_market, get_free_news_analysis and the three scrapers.          *)
(*                                                                         *)
(* A Python string is a sequence of tokens (a token is one character or    *)
(* one literal piece of an f-string), so that strip(), [:50], replace()    *)
(* and string equality are computed, not assumed.  A JSON value is a       *)
(* record tagged with its type t.  changePercent is held in hundredths     *)
(* (3.14 is 314), the precision of the "{:.2f}" the code prints it with.   *)
(***************************************************************************)
EXTENDS Integers, Sequences, FiniteSets, TLC

\* Bounds of the model.
MaxBatch == 3
MaxPageLen == 4

\* Constants of the program.
TopArticles == 3
TitleCut == 50
DriverLimit == 3
SourceLimit == 5
SleepSeconds == 1

-----------------------------------------------------------------------------
(* Strings *)

Min(a, b) == IF a < b THEN a ELSE b

\* s[:n]
Prefix(s, n) == SubSeq(s, 1, Min(Len(s), n))

\* s[1:]
DropFirst(s) == IF s = <<>> THEN <<>> ELSE Tail(s)

IsSpace(c) == c = " "

RECURSIVE LStrip(_)
LStrip(s) == IF s # <<>> /\ IsSpace(Head(s)) THEN LStrip(Tail(s)) ELSE s

RECURSIVE RStrip(_)
RStrip(s) ==
    IF s # <<>> /\ IsSpace(s[Len(s)]) THEN RStrip(SubSeq(s, 1, Len(s) - 1)) ELSE s

\* str.strip()
Strip(s) == RStrip(LStrip(s))

\* str.replace(c, ''), for a one-character c
RemoveChar(s, c) == SelectSeq(s, LAMBDA x : x # c)

Digit(d) == <<"0", "1", "2", "3", "4", "5", "6", "7", "8", "9">>[d + 1]

RECURSIVE Digits(_)
Digits(n) == IF n < 10 THEN <<Digit(n)>> ELSE Append(Digits(n \div 10), Digit(n % 10))

Abs(n) == IF n < 0 THEN 0 - n ELSE n

\* f"{abs(change_percent):.2f}", change_percent in hundredths
FormatAbs2f(n) ==
    Digits(Abs(n) \div 100) \o <<".", Digit((Abs(n) % 100) \div 10), Digit(Abs(n) % 10)>>

-----------------------------------------------------------------------------
(* Lists *)

Range(s) == {s[k] : k \in 1..Len(s)}

\* The keys of the dict after the elements of rest are inserted in order (the
\* singleton sets bind keys and rest to their values, evaluated once)
RECURSIVE FromKeys(_, _)
FromKeys(keys, rest) ==
    IF rest = <<>> THEN keys
    ELSE CHOOSE result \in
            { FromKeys(IF Head(r) \in Range(k) THEN k ELSE Append(k, Head(r)), Tail(r)) :
                k \in {keys}, r \in {rest} } : TRUE

\* list(dict.fromkeys(s)): the first occurrence of every element, in order
Dedupe(s) == FromKeys(<<>>, s)

\* s[:n] on a list
Limit(s, n) == SubSeq(s, 1, Min(Len(s), n))

-----------------------------------------------------------------------------
(* The three scrapers.  A fetched page is what requests.get and the parser  *)
(* give: exc (the GET raised), table (the page has the news table Finviz's  *)
(* scraper looks for) and the matched elements in document order.  An       *)
(* element has its text, and anchor: "none" (no <a> element), "nohref" (an  *)
(* <a> without href) or "href" (an <a> with the attribute href).            *)

Article(text, anchor, href) == [text |-> text, anchor |-> anchor, href |-> href]

Page(table, articles) == [exc |-> FALSE, table |-> table, articles |-> articles]

FetchError == [exc |-> TRUE, table |-> FALSE, articles |-> <<>>]

\* None, as a scraper returns it
NoResult == [ok |-> FALSE, drivers |-> <<>>, sources |-> <<>>]

\* return {'drivers': drivers, 'sources': sources} if drivers else None
ScraperReturn(drivers, sources) ==
    IF drivers # <<>>
    THEN [ok |-> TRUE, drivers |-> drivers, sources |-> sources]
    ELSE NoResult

\* f"{title[:50]}... - {link}"
Citation(title, link) == Prefix(title, TitleCut) \o <<"... - ">> \o link

YahooLink(a) ==
    IF a.anchor = "href" THEN <<"https://finance.yahoo.com">> \o a.href ELSE <<>>

GoogleLink(a) ==
    IF a.anchor = "href" THEN <<"https://news.google.com">> \o DropFirst(a.href) ELSE <<>>

FinvizLink(a) == IF a.anchor = "href" THEN a.href ELSE <<>>

\* The link a scraper builds for an element, "" when there is none
Link(site, a) ==
    CASE site = "yahoo" -> YahooLink(a)
      [] site = "google" -> GoogleLink(a)
      [] site = "finviz" -> FinvizLink(a)

\* The element the title is read from exists: Yahoo reads the matched <h3>
\* itself, Google and Finviz the <a> found in the matched element
HasTitle(site, a) == site = "yahoo" \/ a.anchor # "none"

\* The loop over the matched elements, the same in the three scrapers
Collect(arts, site) ==
    LET titled == SelectSeq(arts, LAMBDA a : HasTitle(site, a) /\ Strip(a.text) # <<>>)
        linked == SelectSeq(titled, LAMBDA a : Link(site, a) # <<>>)
    IN ScraperReturn([k \in 1..Len(titled) |-> Strip(titled[k].text)],
                     [k \in 1..Len(linked) |->
                         Citation(Strip(linked[k].text), Link(site, linked[k]))])

scrape_yahoo_finance_news(page) ==
    IF page.exc THEN NoResult
    ELSE Collect(Limit(page.articles, TopArticles), "yahoo")

scrape_google_news_empty_on_error(page) ==
    IF page.exc THEN [ok |-> TRUE, drivers |-> <<>>, sources |-> <<>>]
    ELSE Collect(Limit(page.articles, TopArticles), "google")

scrape_google_news(page) ==
    IF page.exc THEN NoResult
    ELSE Collect(Limit(page.articles, TopArticles), "google")

\* symbol.replace raises for a symbol that is no string, before the GET
FinvizFetches(symbol) == symbol.t = "str"

scrape_finviz_news(symbol, page) ==
    IF ~FinvizFetches(symbol) \/ page.exc \/ ~page.table THEN NoResult
    ELSE Collect(Limit(page.articles, TopArticles), "finviz")

-----------------------------------------------------------------------------
(* JSON values of the request.  t is the type ("absent": the key is not in  *)
(* the object), s is str() of the value, n its number (in hundredths for a  *)
(* changePercent).                                                          *)

JV(t, s, n) == [t |-> t, s |-> s, n |-> n]

Absent == JV("absent", <<>>, 0)

Null == JV("null", <<"None">>, 0)

Str(s) == JV("str", s, 0)

Num(n) == JV("num", IF n < 0 THEN <<"-">> \o Digits(Abs(n)) ELSE Digits(n), n)

\* An element of the symbols list: a JSON object (dict) with some of the three
\* keys, or a JSON string.
Item(dict, symbol, name, changePercent) ==
    [dict |-> dict, symbol |-> symbol, name |-> name, changePercent |-> changePercent]

\* The value of the key symbols: absent, null, a number or a list of items.
SymbolsValue(t, n, items) == [t |-> t, n |-> n, items |-> items]

Request(body, symbols, startDate, endDate) ==
    [body |-> body, symbols |-> symbols, startDate |-> startDate, endDate |-> endDate]

-----------------------------------------------------------------------------
(* get_free_news_analysis, after the three scraper calls *)

DirectionZeroIncreased(n) == IF n >= 0 THEN "increased" ELSE "decreased"

\* "increased" if change_percent > 0 else "decreased"
Direction(n) == IF n > 0 THEN "increased" ELSE "decreased"

FallbackDrivers(name, change_percent) ==
    << name.s \o <<" ", Direction(change_percent.n), " by ">>
          \o FormatAbs2f(change_percent.n) \o <<"% during this period.">>,
       <<"Check financial news sources for detailed analysis of market conditions.">>,
       <<"Consider broader market trends and sector-specific factors.">> >>

FallbackSources(symbol) ==
    << <<"Yahoo Finance - https://finance.yahoo.com/quote/">> \o symbol.s,
       <<"Google Finance - https://www.google.com/finance/quote/">>
          \o RemoveChar(symbol.s, "^") \o <<":INDEXSP">> >>

TopDriversNotDeduped(drivers) == Limit(drivers, DriverLimit)

\* list(dict.fromkeys(drivers))[:3]
TopDrivers(drivers) == Limit(Dedupe(drivers), DriverLimit)

TopSourcesNotLimited(sources) == Dedupe(sources)

\* list(dict.fromkeys(sources))[:5]
TopSources(sources) == Limit(Dedupe(sources), SourceLimit)

AnalysisResult(drivers, sources, method) ==
    [drivers |-> drivers, sources |-> sources, method |-> method]

ErrorResultWithoutText(text) ==
    AnalysisResult(<< <<"Unable to fetch news">> >>, <<>>, "error")

\* except Exception as e: the result that carries str(e)
ErrorResult(text) == AnalysisResult(<< <<"Unable to fetch news: ">> \o text >>, <<>>, "error")

\* change_percent > 0 and abs(change_percent) raise TypeError for a value
\* that is no number
ComparesWithZero(change_percent) == change_percent.t = "num"

\* type(v).__name__
PyType(t) ==
    CASE t = "str" -> "str"
      [] t = "num" -> "int"
      [] t = "null" -> "NoneType"
      [] t = "list" -> "list"
      [] OTHER -> "dict"

TypeErrorText(v) ==
    <<"'>' not supported between instances of '", PyType(v.t), "' and 'int'">>

AttributeErrorText(t, attr) == <<"'", PyType(t), "' object has no attribute '", attr, "'">>

AnalysisWithoutFallback(symbol, name, change_percent, drivers, sources) ==
    AnalysisResult(TopDrivers(drivers), TopSources(sources), "free_scraping")

\* Lines 86-114: what get_free_news_analysis returns for the lists the
\* scrapers filled.
Analysis(symbol, name, change_percent, drivers, sources) ==
    IF TopDrivers(drivers) # <<>>
    THEN AnalysisResult(TopDrivers(drivers), TopSources(sources), "free_scraping")
    ELSE IF ~ComparesWithZero(change_percent)
         THEN ErrorResult(TypeErrorText(change_percent))
         ELSE IF symbol.t # "str"
              THEN ErrorResult(AttributeErrorText(symbol.t, "replace"))
              ELSE AnalysisResult(FallbackDrivers(name, change_percent),
                                  FallbackSources(symbol), "free_scraping")

-----------------------------------------------------------------------------
(* The requests and the pages the model explores *)

LongTitle(c) == [k \in 1..(TitleCut + 1) |-> IF k <= TitleCut THEN "x" ELSE c]

Href(c) == <<".", "/", "n", "/", c>>

\* What each site can serve: a page shows some consecutive elements of it.
YahooFeed ==
    << Article(<<"A">>, "href", Href("1")),
       Article(<<"B">>, "href", Href("2")),
       Article(<<"C">>, "href", <<>>),
       Article(<<" ", " ">>, "href", Href("3")),
       Article(<<"D">>, "none", <<>>) >>

GoogleFeed ==
    << Article(<<" ", "A", " ">>, "href", Href("1")),
       Article(LongTitle("1"), "href", Href("4")),
       Article(LongTitle("2"), "href", Href("4")),
       Article(<<"B">>, "none", <<>>),
       Article(<<"E">>, "nohref", <<>>) >>

FinvizFeed ==
    << Article(<<"A">>, "href", Href("1")),
       Article(<<"C">>, "href", <<>>),
       Article(<<"G">>, "none", <<>>),
       Article(<<"B">>, "href", Href("2")),
       Article(<<"H">>, "href", Href("5")) >>

Windows(feed, maxLen) ==
    { SubSeq(feed, w[1], w[1] + w[2] - 1) :
        w \in {v \in (1..Len(feed)) \X (0..maxLen) : v[1] + v[2] - 1 <= Len(feed)} }

\* The pages a site may answer with while a request of batchLen instruments
\* is served: any window of its feed for a single instrument, its first
\* element or a failure for a batch.
Pages(feed, batchLen) ==
    IF batchLen = 1
    THEN {FetchError, Page(FALSE, <<>>)} \cup {Page(TRUE, w) : w \in Windows(feed, MaxPageLen)}
    ELSE {FetchError, Page(TRUE, <<feed[1]>>)}

Gspc == Str(<<"^", "G", "S", "P", "C">>)

TestIndex == Str(<<"Test Index">>)

Symbols == {Gspc, Num(5)}

ChangePercents == {Num(314), Num(0 - 200), Num(0), Null}

WellFormedItems ==
    {Item(TRUE, sy, TestIndex, cp) : sy \in Symbols, cp \in ChangePercents}

MalformedItems ==
    { Item(TRUE, Absent, TestIndex, Num(314)),
      Item(TRUE, Gspc, Absent, Num(314)),
      Item(TRUE, Gspc, TestIndex, Absent),
      Item(FALSE, Absent, Absent, Absent) }

BatchItems ==
    { Item(TRUE, Gspc, TestIndex, Num(314)),
      Item(TRUE, Gspc, TestIndex, Null),
      Item(TRUE, Gspc, Absent, Num(314)) }

RECURSIVE Lists(_, _)
Lists(S, n) ==
    IF n = 0 THEN {<<>>} ELSE {Append(l, x) : l \in Lists(S, n - 1), x \in S}

ItemLists ==
    Lists(WellFormedItems \cup MalformedItems, 1)
    \cup UNION {Lists(BatchItems, n) : n \in 2..MaxBatch}

SymbolsValues ==
    { SymbolsValue("absent", 0, <<>>), SymbolsValue("null", 0, <<>>),
      SymbolsValue("num", 0, <<>>), SymbolsValue("num", 5, <<>>),
      SymbolsValue("list", 0, <<>>) }
    \cup {SymbolsValue("list", 0, l) : l \in ItemLists}

\* startDate and endDate: both given or, for a request of at most one
\* instrument, both missing
Dates(sv) ==
    {<<Str(<<"2024-01-01">>), Str(<<"2024-01-08">>)>>}
    \cup (IF Len(sv.items) <= 1 THEN {<<Absent, Absent>>} ELSE {})

Requests ==
    { Request("invalid", SymbolsValue("absent", 0, <<>>), Absent, Absent),
      Request("array", SymbolsValue("absent", 0, <<>>), Absent, Absent) }
    \cup UNION {{Request("object", sv, d[1], d[2]) : d \in Dates(sv)} : sv \in SymbolsValues}

-----------------------------------------------------------------------------
(* analyze_market *)

VARIABLES
    req,           \* the request being served
    pc,            \* where the handler is
    i,             \* the position of the for loop in symbols (from 1)
    analyses,      \* the list analyses
    yahoo_news,    \* locals of get_free_news_analysis
    google_news,
    finviz_news,
    drivers,
    sources,
    responses,     \* the responses returned to the client
    log            \* the scraper calls, GETs and sleeps made so far, in order

vars == <<req, pc, i, analyses, yahoo_news, google_news, finviz_news,
          drivers, sources, responses, log>>

\* An entry of log: op is "call" (a scraper is called), "fetch" (requests.get,
\* raised says that it raised) or "sleep" (time.sleep(secs)), for the item-th
\* instrument.
Event(op, site, item, secs, raised) ==
    [op |-> op, site |-> site, item |-> item, secs |-> secs, raised |-> raised]

CallEventsWithRetry(site, item, fetches, raised) ==
    IF fetches
    THEN <<Event("call", site, item, 0, FALSE), Event("fetch", site, item, 0, raised)>>
         \o (IF raised THEN <<Event("fetch", site, item, 0, raised)>> ELSE <<>>)
    ELSE <<Event("call", site, item, 0, FALSE)>>

\* What one scraper call adds to log
CallEvents(site, item, fetches, raised) ==
    IF fetches
    THEN <<Event("call", site, item, 0, FALSE), Event("fetch", site, item, 0, raised)>>
    ELSE <<Event("call", site, item, 0, FALSE)>>

\* time.sleep(1)
SleepEvents(item) == <<Event("sleep", "", item, SleepSeconds, FALSE)>>

Response(status, keys, error, list) ==
    [status |-> status, keys |-> keys, error |-> error, analyses |-> list]

\* jsonify({"analyses": analyses})
OkResponse(list) == Response(200, {"analyses"}, <<>>, list)

\* jsonify({"error": "No symbols provided"}), 400
NoSymbolsResponse == Response(400, {"error"}, <<"No symbols provided">>, <<>>)

ErrorResponseWithPartial(text) == Response(200, {"analyses"}, <<>>, analyses)

\* jsonify({"error": str(e)}), 500
ErrorResponse(text) == Response(500, {"error"}, text, <<>>)

NoSymbolsOnlyMissing(sv) == sv.t \in {"absent", "null"}

\* not symbols, where symbols = data.get('symbols', [])
NoSymbols(sv) ==
    \/ sv.t \in {"absent", "null"}
    \/ sv.t = "num" /\ sv.n = 0
    \/ sv.t = "list" /\ sv.items = <<>>

\* The exception of lines 37-39 for an item, <<>> when there is none
ItemErrorText(item) ==
    IF ~item.dict THEN <<"string indices must be integers, not 'str'">>
    ELSE IF item.symbol.t = "absent" THEN <<"'symbol'">>
    ELSE IF item.name.t = "absent" THEN <<"'name'">>
    ELSE IF item.changePercent.t = "absent" THEN <<"'changePercent'">>
    ELSE <<>>

AppendAnalysisInFront(list, item, analysis) ==
    <<[symbol |-> item.symbol, name |-> item.name,
       changePercent |-> item.changePercent, analysis |-> analysis]>> \o list

\* analyses.append({...})
AppendAnalysis(list, item, analysis) ==
    Append(list, [symbol |-> item.symbol, name |-> item.name,
                  changePercent |-> item.changePercent, analysis |-> analysis])

\* drivers.extend(news['drivers']) under "if news:"
Extend(list, news, field) == IF news.ok THEN list \o news[field] ELSE list

Items == req.symbols.items

BatchLen == Len(Items)

Init ==
    /\ req \in Requests
    /\ pc = "parse"
    /\ i = 0
    /\ analyses = <<>>
    /\ yahoo_news = NoResult
    /\ google_news = NoResult
    /\ finviz_news = NoResult
    /\ drivers = <<>>
    /\ sources = <<>>
    /\ responses = <<>>
    /\ log = <<>>

Locals == <<yahoo_news, google_news, finviz_news, drivers, sources>>

\* return ..., status
Return(response) ==
    /\ responses' = Append(responses, response)
    /\ pc' = "done"

\* Lines 26-34
ParseRequest ==
    /\ pc = "parse"
    /\ IF req.body = "invalid"
       THEN Return(ErrorResponse(<<"400 Bad Request: Failed to decode JSON object">>))
       ELSE IF req.body # "object"
       THEN Return(ErrorResponse(AttributeErrorText("list", "get")))
       ELSE IF NoSymbols(req.symbols)
       THEN Return(NoSymbolsResponse)
       ELSE /\ pc' = "loop"
            /\ UNCHANGED responses
    /\ i' = 1
    /\ UNCHANGED <<req, analyses, Locals, log>>

\* Lines 36-39 and 64-66: the next item of the loop, up to the first scraper call
NextItem ==
    /\ pc = "loop"
    /\ req.symbols.t = "list" => i <= BatchLen
    /\ IF req.symbols.t # "list"
       THEN /\ Return(ErrorResponse(<<"'int' object is not iterable">>))
            /\ UNCHANGED Locals
       ELSE IF ItemErrorText(Items[i]) # <<>>
       THEN /\ Return(ErrorResponse(ItemErrorText(Items[i])))
            /\ UNCHANGED Locals
       ELSE /\ pc' = "yahoo"
            /\ yahoo_news' = NoResult
            /\ google_news' = NoResult
            /\ finviz_news' = NoResult
            /\ drivers' = <<>>
            /\ sources' = <<>>
            /\ UNCHANGED responses
    /\ UNCHANGED <<req, i, analyses, log>>

\* Line 54
ReturnAnalyses ==
    /\ pc = "loop"
    /\ req.symbols.t = "list"
    /\ i > BatchLen
    /\ Return(OkResponse(analyses))
    /\ UNCHANGED <<req, i, analyses, Locals, log>>

\* Lines 69-72
CallYahoo ==
    /\ pc = "yahoo"
    /\ \E page \in Pages(YahooFeed, BatchLen) :
          /\ yahoo_news' = scrape_yahoo_finance_news(page)
          /\ drivers' = Extend(drivers, yahoo_news', "drivers")
          /\ sources' = Extend(sources, yahoo_news', "sources")
          /\ log' = log \o CallEvents("yahoo", i, TRUE, page.exc)
    /\ pc' = "google"
    /\ UNCHANGED <<req, i, analyses, google_news, finviz_news, responses>>

\* Lines 75-78
CallGoogle ==
    /\ pc = "google"
    /\ \E page \in Pages(GoogleFeed, BatchLen) :
          /\ google_news' = scrape_google_news(page)
          /\ drivers' = Extend(drivers, google_news', "drivers")
          /\ sources' = Extend(sources, google_news', "sources")
          /\ log' = log \o CallEvents("google", i, TRUE, page.exc)
    /\ pc' = "finviz"
    /\ UNCHANGED <<req, i, analyses, yahoo_news, finviz_news, responses>>

\* Lines 81-84
CallFinviz ==
    /\ pc = "finviz"
    /\ \E page \in Pages(FinvizFeed, BatchLen) :
          /\ finviz_news' = scrape_finviz_news(Items[i].symbol, page)
          /\ drivers' = Extend(drivers, finviz_news', "drivers")
          /\ sources' = Extend(sources, finviz_news', "sources")
          /\ log' = log \o CallEvents("finviz", i, FinvizFetches(Items[i].symbol), page.exc)
    /\ pc' = "aggregate"
    /\ UNCHANGED <<req, i, analyses, yahoo_news, google_news, responses>>

\* Lines 86-114 and 44-49: the analysis is computed, returned and appended
Aggregate ==
    /\ pc = "aggregate"
    /\ LET item == Items[i]
           analysis == Analysis(item.symbol, item.name, item.changePercent, drivers, sources)
       IN /\ analyses' = AppendAnalysis(analyses, item, analysis)
          /\ drivers' = IF analysis.method = "error" THEN TopDrivers(drivers)
                                                     ELSE analysis.drivers
          /\ sources' = IF analysis.method = "error" THEN TopSources(sources)
                                                     ELSE analysis.sources
    /\ pc' = "sleep"
    /\ UNCHANGED <<req, i, yahoo_news, google_news, finviz_news, responses, log>>

\* Line 52, and the loop moves on
Sleep ==
    /\ pc = "sleep"
    /\ log' = log \o SleepEvents(i)
    /\ i' = i + 1
    /\ pc' = "loop"
    /\ UNCHANGED <<req, analyses, Locals, responses>>

Next ==
    \/ ParseRequest
    \/ NextItem
    \/ ReturnAnalyses
    \/ CallYahoo
    \/ CallGoogle
    \/ CallFinviz
    \/ Aggregate
    \/ Sleep

Spec == Init /\ [][Next]_vars

-----------------------------------------------------------------------------
(* Properties *)

Done == pc = "done"

\* The analysis of the instrument the loop is at has been appended
Analysed == pc = "sleep"

Current == analyses[i].analysis

\* An item with the three keys
HasKeys(item) ==
    /\ item.dict
    /\ item.symbol.t # "absent"
    /\ item.name.t # "absent"
    /\ item.changePercent.t # "absent"

\* An InstrumentRequest: symbol a string, changePercent a number
Typed(item) == HasKeys(item) /\ item.symbol.t = "str" /\ item.changePercent.t = "num"

\* A request whose symbols is a list of N >= 1 items with the three keys
WellFormedBatch ==
    /\ req.body = "object"
    /\ req.symbols.t = "list"
    /\ BatchLen >= 1
    /\ \A k \in 1..BatchLen : HasKeys(Items[k])

\* What the three scrapers returned for the current instrument, in call order
Scraped(field) == yahoo_news[field] \o google_news[field] \o finviz_news[field]

\* The positions of c that hold the first occurrence of their element
FirstOccurrences(c) == {k \in 1..Len(c) : \A j \in 1..(k - 1) : c[j] # c[k]}

\* r is the first n distinct elements of c, in the order of their first
\* occurrence in c
IsFirstDistinct(r, c, n) ==
    /\ Len(r) = Min(n, Cardinality(FirstOccurrences(c)))
    /\ \A m \in 1..Len(r) :
          \E k \in FirstOccurrences(c) :
             /\ r[m] = c[k]
             /\ Cardinality({j \in FirstOccurrences(c) : j < k}) = m - 1

\* C1: a request with N >= 1 items that have the three keys is answered by
\* 200 with exactly N analyses, the k-th carrying the symbol, name and
\* changePercent of the k-th item, whatever the scrapers did.
C1_OneAnalysisPerItemInOrder ==
    (Done /\ WellFormedBatch) =>
        /\ Len(responses) = 1
        /\ responses[1].status = 200
        /\ responses[1].keys = {"analyses"}
        /\ Len(responses[1].analyses) = BatchLen
        /\ \A k \in 1..BatchLen :
              /\ responses[1].analyses[k].symbol = Items[k].symbol
              /\ responses[1].analyses[k].name = Items[k].name
              /\ responses[1].analyses[k].changePercent = Items[k].changePercent

C1_Witness ==
    /\ Done
    /\ WellFormedBatch
    /\ BatchLen = 3
    /\ Items[1] # Items[2]
    /\ responses[1].analyses[1].analysis.method = "free_scraping"
    /\ responses[1].analyses[2].analysis.method = "error"

\* C2: a request whose symbols is missing or the empty list is answered by
\* 400 and {"error": "No symbols provided"} whatever startDate and endDate
\* are, and no scraper is called and no sleep made for it.
C2_NoSymbolsIs400BeforeAnyWork ==
    (/\ req.body = "object"
     /\ \/ req.symbols.t = "absent"
        \/ req.symbols.t = "list" /\ req.symbols.items = <<>>) =>
        /\ log = <<>>
        /\ pc \in {"parse", "done"}
        /\ Done =>
              /\ Len(responses) = 1
              /\ responses[1].status = 400
              /\ responses[1].keys = {"error"}
              /\ responses[1].error = <<"No symbols provided">>

C2_Witness ==
    /\ Done
    /\ req.symbols.t = "list"
    /\ req.symbols.items = <<>>
    /\ req.startDate.t = "str"
    /\ responses[1].status = 400

\* The text of the exception the aggregation raises for an item it cannot
\* treat: the comparison with 0 first, then symbol.replace
AggregationError(item) ==
    IF item.changePercent.t # "num"
    THEN <<"'>' not supported between instances of '", PyType(item.changePercent.t),
           "' and 'int'">>
    ELSE <<"'", PyType(item.symbol.t), "' object has no attribute '", "replace", "'">>

\* C3: an instrument whose analysis raises gets method "error", one driver
\* that carries the text of the exception and no sources; the instruments
\* after it are still processed, an instrument that is an InstrumentRequest
\* gets method "free_scraping" whatever happened to the others, and the
\* response holds one item per instrument.
C3_ErrorIsolation ==
    /\ \A k \in 1..Len(analyses) :
          LET a == analyses[k].analysis
          IN /\ a.method \in {"free_scraping", "error"}
             /\ Typed(Items[k]) => a.method = "free_scraping"
             /\ a.method = "error" =>
                   /\ a.sources = <<>>
                   /\ a.drivers = << <<"Unable to fetch news: ">> \o AggregationError(Items[k]) >>
                   /\ (Done /\ k < BatchLen /\ HasKeys(Items[k + 1])) => Len(analyses) > k
    /\ (Done /\ WellFormedBatch) => Len(responses[1].analyses) = BatchLen

C3_Witness ==
    /\ Done
    /\ BatchLen = 3
    /\ Len(responses[1].analyses) = 3
    /\ responses[1].analyses[1].analysis.method = "free_scraping"
    /\ responses[1].analyses[2].analysis.method = "error"
    /\ responses[1].analyses[3].analysis.method = "free_scraping"

\* C4: every analysis has at most 3 drivers and at most 5 sources, on the
\* scraped, the fallback and the error path.
C4_Truncation ==
    \A k \in 1..Len(analyses) :
       /\ Len(analyses[k].analysis.drivers) <= 3
       /\ Len(analyses[k].analysis.sources) <= 5

C4_Witness ==
    /\ Analysed
    /\ Cardinality(Range(Scraped("drivers"))) > 3
    /\ Cardinality(Range(Scraped("sources"))) > 5
    /\ Len(Current.drivers) = 3
    /\ Len(Current.sources) = 5

\* C5: when the scrapers returned drivers, the drivers of the analysis are
\* the first 3 distinct drivers of Yahoo's, Google's and Finviz's, in that
\* order, each at its first occurrence, and the sources the first 5 distinct
\* sources likewise; the drivers A, B, A, C give A, B, C.
C5_DedupeKeepsFirstOccurrences ==
    (Analysed /\ Scraped("drivers") # <<>>) =>
        /\ Current.method = "free_scraping"
        /\ IsFirstDistinct(Current.drivers, Scraped("drivers"), 3)
        /\ IsFirstDistinct(Current.sources, Scraped("sources"), 5)
        /\ Scraped("drivers") = << <<"A">>, <<"B">>, <<"A">>, <<"C">> >> =>
              Current.drivers = << <<"A">>, <<"B">>, <<"C">> >>

C5_Witness ==
    /\ Analysed
    /\ Scraped("drivers") = << <<"A">>, <<"B">>, <<"A">>, <<"C">> >>
    /\ Current.drivers = << <<"A">>, <<"B">>, <<"C">> >>

\* No scraper returned a result for the current instrument
NothingScraped == ~yahoo_news.ok /\ ~google_news.ok /\ ~finviz_news.ok

\* The two decimals the examples are printed with
PrintedAmount(n) ==
    CASE n = 314 -> <<"3", ".", "1", "4">>
      [] n = 0 - 200 -> <<"2", ".", "0", "0">>
      [] n = 0 -> <<"0", ".", "0", "0">>

\* C6: when the three scrapers return no result for an InstrumentRequest, the
\* analysis has method "free_scraping", three drivers and the two sources
\* built from the symbol, and the first driver is the name, "increased" for
\* a changePercent > 0 and "decreased" for one < 0 or = 0, and the absolute
\* value with two decimals (3.14 gives increased, 3.14; -2.0 gives
\* decreased, 2.00).
C6_Fallback ==
    (Analysed /\ NothingScraped /\ Typed(Items[i])) =>
        LET item == Items[i]
            n == item.changePercent.n
            word == IF n > 0 THEN "increased" ELSE IF n < 0 THEN "decreased" ELSE "decreased"
        IN /\ Current.method = "free_scraping"
           /\ Len(Current.drivers) = 3
           /\ Current.drivers[1] =
                 item.name.s \o <<" ", word, " by ">> \o PrintedAmount(n)
                    \o <<"% during this period.">>
           /\ Current.sources =
                 << <<"Yahoo Finance - https://finance.yahoo.com/quote/">> \o item.symbol.s,
                    <<"Google Finance - https://www.google.com/finance/quote/">>
                       \o SelectSeq(item.symbol.s, LAMBDA c : c # "^") \o <<":INDEXSP">> >>

C6_Witness ==
    /\ Analysed
    /\ NothingScraped
    /\ Items[i].changePercent = Num(0 - 200)
    /\ Current.method = "free_scraping"
    /\ Current.drivers[1] = <<"Test Index", " ", "decreased", " by ", "2", ".", "0", "0",
                              "% during this period.">>
    /\ Len(Current.sources) = 2

\* C7, as the spec states it: every analysis has a driver, and every analysis
\* with method "free_scraping" has a source.
C7_SourcesEmptyOnlyOnError ==
    \A k \in 1..Len(analyses) :
       /\ analyses[k].analysis.drivers # <<>>
       /\ analyses[k].analysis.method = "free_scraping" =>
             analyses[k].analysis.sources # <<>>

\* C7, amended: every analysis has a driver; the fallback has its two sources;
\* an analysis without sources is one of the error path, or one of the
\* scraped path none of whose headlines was extracted with a link.
C7_SourcesEmptyOnlyWithoutLinks ==
    /\ \A k \in 1..Len(analyses) : analyses[k].analysis.drivers # <<>>
    /\ Analysed =>
          /\ (Current.method = "free_scraping" /\ NothingScraped) => Len(Current.sources) = 2
          /\ Current.sources = <<>> =>
                \/ Current.method = "error"
                \/ /\ Current.method = "free_scraping"
                   /\ Scraped("drivers") # <<>>
                   /\ Scraped("sources") = <<>>

C7_Witness ==
    /\ Analysed
    /\ Current.method = "free_scraping"
    /\ Current.drivers # <<>>
    /\ Current.sources = <<>>

\* The handler's try block raises: the body is no JSON object, symbols is a
\* number other than 0, or an item of the list lacks a key or is no object
HandlerRaises ==
    \/ req.body # "object"
    \/ req.symbols.t = "num" /\ req.symbols.n # 0
    \/ req.symbols.t = "list" /\ \E k \in 1..BatchLen : ~HasKeys(Items[k])

FirstBadItem == Items[CHOOSE k \in 1..BatchLen :
                         ~HasKeys(Items[k]) /\ \A j \in 1..(k - 1) : HasKeys(Items[j])]

\* C8: the handler always goes on until it has returned, and returns exactly
\* one response, 200, 400 or 500; it returns 500 exactly when an exception
\* reaches its except clause, with {"error": text} and none of the analyses
\* computed before the exception.
C8_OneResponseAnd500 ==
    /\ Len(responses) <= 1
    /\ Done <=> Len(responses) = 1
    /\ ~Done => ENABLED Next
    /\ Done =>
          /\ responses[1].status \in {200, 400, 500}
          /\ responses[1].status = 500 <=> HandlerRaises
          /\ responses[1].status = 500 =>
                /\ responses[1].keys = {"error"}
                /\ responses[1].analyses = <<>>
                /\ responses[1].error # <<>>
                /\ (req.symbols.t = "list" /\ FirstBadItem.dict) =>
                      responses[1].error \in {<<"'symbol'">>, <<"'name'">>, <<"'changePercent'">>}

C8_Witness ==
    /\ Done
    /\ responses[1].status = 500
    /\ responses[1].error = <<"'name'">>
    /\ Len(analyses) >= 1
    /\ responses[1].analyses = <<>>

Fetches(site, k) ==
    {n \in 1..Len(log) : log[n].op = "fetch" /\ log[n].site = site /\ log[n].item = k}

Calls(site, k) ==
    {n \in 1..Len(log) : log[n].op = "call" /\ log[n].site = site /\ log[n].item = k}

Raised(site, k) == \E n \in Fetches(site, k) : log[n].raised

Sites == {"yahoo", "google", "finviz"}

\* The scrapers of the current instrument have all been called
AllCalled == pc \in {"aggregate", "sleep"}

\* C9: a scraper whose GET raised returns no result and the GET is not
\* repeated; the other two scrapers are called all the same, the analysis is
\* made of what they returned, and its method is "error" only when nothing
\* was scraped for an item that is no InstrumentRequest; a scraper returns
\* either no result or a result with at least one driver.
C9_ScraperFailureIsolation ==
    /\ \A site \in Sites : \A k \in 1..MaxBatch + 1 : Cardinality(Fetches(site, k)) <= 1
    /\ \A news \in {yahoo_news, google_news, finviz_news} :
          IF news.ok THEN news.drivers # <<>> ELSE news = NoResult
    /\ AllCalled =>
          /\ \A site \in Sites : Cardinality(Calls(site, i)) = 1
          /\ Raised("yahoo", i) => yahoo_news = NoResult
          /\ Raised("google", i) => google_news = NoResult
          /\ Raised("finviz", i) => finviz_news = NoResult
    /\ Analysed =>
          /\ Current.method = "error" => (NothingScraped /\ ~Typed(Items[i]))
          /\ (Raised("yahoo", i) /\ ~NothingScraped) =>
                /\ IsFirstDistinct(Current.drivers, google_news.drivers \o finviz_news.drivers, 3)
                /\ IsFirstDistinct(Current.sources, google_news.sources \o finviz_news.sources, 5)
          /\ (Raised("google", i) /\ ~NothingScraped) =>
                /\ IsFirstDistinct(Current.drivers, yahoo_news.drivers \o finviz_news.drivers, 3)
                /\ IsFirstDistinct(Current.sources, yahoo_news.sources \o finviz_news.sources, 5)
          /\ (Raised("finviz", i) /\ ~NothingScraped) =>
                /\ IsFirstDistinct(Current.drivers, yahoo_news.drivers \o google_news.drivers, 3)
                /\ IsFirstDistinct(Current.sources, yahoo_news.sources \o google_news.sources, 5)

C9_Witness ==
    /\ Analysed
    /\ Raised("google", i)
    /\ yahoo_news.ok
    /\ finviz_news.ok
    /\ Current.method = "free_scraping"
    /\ Current.drivers = Limit(yahoo_news.drivers \o finviz_news.drivers, 3)

Shape(e) == <<e.op, e.site, e.item, e.secs>>

\* The calls, GETs and sleep of the k-th instrument
Block(k) ==
    << <<"call", "yahoo", k, 0>>, <<"fetch", "yahoo", k, 0>>,
       <<"call", "google", k, 0>>, <<"fetch", "google", k, 0>>,
       <<"call", "finviz", k, 0>>, <<"fetch", "finviz", k, 0>>,
       <<"sleep", "", k, 1>> >>

RECURSIVE Blocks(_)
Blocks(n) == IF n = 0 THEN <<>> ELSE Blocks(n - 1) \o Block(n)

\* What the handler has done when it is at pc in the i-th turn of the loop
ExpectedLog ==
    CASE pc = "parse" -> <<>>
      [] pc \in {"loop", "done"} -> Blocks(i - 1)
      [] pc = "yahoo" -> Blocks(i - 1)
      [] pc = "google" -> Blocks(i - 1) \o SubSeq(Block(i), 1, 2)
      [] pc = "finviz" -> Blocks(i - 1) \o SubSeq(Block(i), 1, 4)
      [] pc \in {"aggregate", "sleep"} -> Blocks(i - 1) \o SubSeq(Block(i), 1, 6)

IsGet(x) == x[1] = "fetch"

NotGet(x) == x[1] # "fetch"

\* C10: the instruments are processed one after the other in the order of
\* the list: for each, Yahoo's, Google's and Finviz's scraper are called once
\* each in that order, then comes the sleep of 1, before anything of the next
\* instrument; each call makes one GET when the symbols are strings, so that
\* a batch of N makes 3N GETs and N sleeps.
C10_SequentialWithSleep ==
    LET done == [n \in 1..Len(log) |-> Shape(log[n])]
    IN /\ SelectSeq(done, NotGet) = SelectSeq(ExpectedLog, NotGet)
       /\ (\A k \in 1..BatchLen : Items[k].symbol.t # "num") =>
             /\ done = ExpectedLog
             /\ (Done /\ Len(responses) = 1 /\ responses[1].status = 200) =>
                   /\ Len(SelectSeq(done, IsGet)) = 3 * BatchLen
                   /\ Cardinality({n \in 1..Len(log) : log[n].op = "sleep"}) = BatchLen

C10_Witness ==
    /\ Done
    /\ responses[1].status = 200
    /\ BatchLen = 3
    /\ Len(log) = 21
    /\ log[7].op = "sleep"
    /\ log[8] = Event("call", "yahoo", 2, 0, FALSE)

====
